---- MODULE Spec2Model ----
(***************************************************************************)
(* Model of dataset_setup/data_loader.py: the repair of the annotator      *)
(* metadata text (fix_json_structure, preprocess_annotator_metadata), the  *)
(* assembly of each source file (load_datasets_from_filesystem) and the    *)
(* load of the assembled tables into test_cases (main).                    *)
(*                                                                         *)
(* Text is a sequence of one-character strings.  The characters that occur *)
(* are letters, digits, space, ? . , : / - and the quotes and brackets; no *)
(* backslash, no control character and no number with an exponent occurs,  *)
(* so json_loads covers the JSON grammar over those characters.            *)
(***************************************************************************)
EXTENDS Integers, Sequences, FiniteSets, TLC

\* ------------------------------------------------------------------ bounds
MaxSteps == 2
MaxRawLen == 3
MaxFiles == 2
MaxRows == 2

\* ------------------------------------------------------------- characters
DQ == "\""
SQ == "'"
TMP1 == <<"T", "M", "P", "1">>
TMP2 == <<"T", "M", "P", "2">>
TMP3 == <<"T", "M", "P", "3">>
AposS == <<"'", "s">>
AposT == <<"'", "t">>
AposParen == <<"'", "(">>

KeySteps == <<"S", "t", "e", "p", "s">>
KeyNumSteps == <<"N", "u", "m", "b", "e", "r", " ", "o", "f", " ", "s", "t", "e", "p", "s">>
KeyTimeTaken == <<"H", "o", "w", " ", "l", "o", "n", "g", " ", "d", "i", "d", " ",
                  "t", "h", "i", "s", " ", "t", "a", "k", "e", "?">>
KeyTools == <<"T", "o", "o", "l", "s">>
KeyNumTools == <<"N", "u", "m", "b", "e", "r", " ", "o", "f", " ", "t", "o", "o", "l", "s">>
MetadataKeys == <<KeySteps, KeyNumSteps, KeyTimeTaken, KeyTools, KeyNumTools>>

BucketPrefix == <<"d", "a", "m", "g", "7", "3", "7", "4", "-", "a", "1", "-",
                  "s", "t", "o", "r", "e", "/">>

\* ------------------------------------------------------------ str.replace
MatchAt(s, pat, i) ==
    /\ i + Len(pat) - 1 <= Len(s)
    /\ \A j \in 1..Len(pat) : s[i + j - 1] = pat[j]

\* The start of the first occurrence of pat at or after i, 0 when there is none.
NextMatch(s, pat, i) ==
    IF \E j \in i..Len(s) : MatchAt(s, pat, j)
    THEN CHOOSE j \in i..Len(s) : MatchAt(s, pat, j) /\ \A h \in i..(j - 1) : ~MatchAt(s, pat, h)
    ELSE 0

RECURSIVE ReplaceFrom(_, _, _, _)
ReplaceFrom(s, old, new, i) ==
    LET j == NextMatch(s, old, i)
    IN IF j = 0 THEN SubSeq(s, i, Len(s))
       ELSE SubSeq(s, i, j - 1) \o new \o ReplaceFrom(s, old, new, j + Len(old))

\* Python's str.replace(old, new) for a non-empty old: every non-overlapping
\* occurrence, left to right.
replace(s, old, new) == ReplaceFrom(s, old, new, 1)

\* A mistaken Tier 1 rewrite that never turns the single quotes into double quotes.
Tier1TextKeepsQuotes(metadata) ==
    replace(replace(metadata, <<DQ>>, TMP1), TMP1, <<SQ>>)

\* The text Tier 1 hands to json.loads.
Tier1Text(metadata) ==
    replace(replace(replace(metadata, <<DQ>>, TMP1), <<SQ>>, <<DQ>>), TMP1, <<SQ>>)

\* The text Tier 2 hands to json.loads.
Tier2Text(metadata) ==
    LET a == replace(metadata, AposS, TMP1)
        b == replace(a, AposT, TMP2)
        c == replace(b, AposParen, TMP3)
        d == replace(c, <<DQ>>, <<SQ>>)
        e == replace(d, <<SQ>>, <<DQ>>)
        f == replace(e, TMP2, AposT)
        g == replace(f, TMP1, AposS)
    IN replace(g, TMP3, AposParen)

\* ------------------------------------------------------------ JSON values
\* One record shape for every value, so that any two values compare.
\*   t: "null" "true" "false" "int" "float" "str" "arr" "obj"
\*   n: the integer (int), the integer part (float)
\*   s: the characters (str), the fraction digits (float)
\*   items: the elements (arr), the members in insertion order (obj)
\*   k: the key under which the value sits in an object, <<>> elsewhere
VNull == [t |-> "null", n |-> 0, s |-> <<>>, items |-> <<>>, k |-> <<>>]
VBool(b) == [VNull EXCEPT !.t = IF b THEN "true" ELSE "false"]
VInt(n) == [VNull EXCEPT !.t = "int", !.n = n]
VFloat(ip, fr) == [VNull EXCEPT !.t = "float", !.n = ip, !.s = fr]
VStr(cs) == [VNull EXCEPT !.t = "str", !.s = cs]
VArr(xs) == [VNull EXCEPT !.t = "arr", !.items = xs]
VObj(ms) == [VNull EXCEPT !.t = "obj", !.items = ms]
Member(key, v) == [v EXCEPT !.k = key]

HasKey(obj, key) == \E i \in 1..Len(obj.items) : obj.items[i].k = key

\* dict[key]: the member stored under key, as a plain value.
GetKey(obj, key) ==
    LET i == CHOOSE j \in 1..Len(obj.items) : obj.items[j].k = key
    IN [obj.items[i] EXCEPT !.k = <<>>]

\* dict[key] = v while an object is built: a repeated key keeps its place and
\* takes the later value.
DictSet(ms, key, v) ==
    IF \E i \in 1..Len(ms) : ms[i].k = key
    THEN [i \in 1..Len(ms) |-> IF ms[i].k = key THEN Member(key, v) ELSE ms[i]]
    ELSE Append(ms, Member(key, v))

\* ------------------------------------------------------------- json.loads
Digits == {"0", "1", "2", "3", "4", "5", "6", "7", "8", "9"}
DigitVal(c) ==
    CASE c = "0" -> 0 [] c = "1" -> 1 [] c = "2" -> 2 [] c = "3" -> 3 [] c = "4" -> 4
      [] c = "5" -> 5 [] c = "6" -> 6 [] c = "7" -> 7 [] c = "8" -> 8 [] OTHER -> 9

ParseFail == [ok |-> FALSE, val |-> VNull, pos |-> 0]
ParseOk(v, p) == [ok |-> TRUE, val |-> v, pos |-> p]

RECURSIVE SkipWs(_, _)
SkipWs(s, i) == IF i <= Len(s) /\ s[i] = " " THEN SkipWs(s, i + 1) ELSE i

\* py_scanstring after an opening quote at j - 1: the characters up to the
\* next double quote.
ScanString(s, j) ==
    LET e == NextMatch(s, <<DQ>>, j)
    IN IF e = 0 THEN ParseFail ELSE ParseOk(VStr(SubSeq(s, j, e - 1)), e + 1)

RECURSIVE ScanDigits(_, _)
ScanDigits(s, j) == IF j <= Len(s) /\ s[j] \in Digits THEN ScanDigits(s, j + 1) ELSE j

RECURSIVE DigitsValue(_, _, _)
DigitsValue(s, i, j) ==
    IF j < i THEN 0 ELSE 10 * DigitsValue(s, i, j - 1) + DigitVal(s[j])

\* NUMBER_RE of json.scanner, (-?(?:0|[1-9]\d*))(\.\d+)?, at a digit s[i].
ParseNumber(s, i) ==
    LET j == IF s[i] = "0" THEN i + 1 ELSE ScanDigits(s, i)
        ip == DigitsValue(s, i, j - 1)
        hasFrac == j + 1 <= Len(s) /\ s[j] = "." /\ s[j + 1] \in Digits
        e == IF hasFrac THEN ScanDigits(s, j + 1) ELSE j
    IN IF hasFrac THEN ParseOk(VFloat(ip, SubSeq(s, j + 1, e - 1)), e)
       ELSE ParseOk(VInt(ip), j)

LitNull == <<"n", "u", "l", "l">>
LitTrue == <<"t", "r", "u", "e">>
LitFalse == <<"f", "a", "l", "s", "e">>

RECURSIVE ParseValue(_, _)
RECURSIVE ParseElements(_, _, _)
RECURSIVE ParseMembers(_, _, _)

\* JSONArray after "[" and a first non-"]" character: a value, then "," or "]".
ParseElements(s, i, acc) ==
    LET r == ParseValue(s, i)
        j == SkipWs(s, r.pos)
    IN IF ~r.ok \/ j > Len(s) THEN ParseFail
       ELSE IF s[j] = "]" THEN ParseOk(VArr(Append(acc, r.val)), j + 1)
       ELSE IF s[j] = "," THEN ParseElements(s, SkipWs(s, j + 1), Append(acc, r.val))
       ELSE ParseFail

\* JSONObject at the opening quote of a key: "key" : value, then "," or "}".
ParseMembers(s, i, acc) ==
    IF i > Len(s) \/ s[i] # DQ THEN ParseFail
    ELSE LET key == ScanString(s, i + 1)
             c == SkipWs(s, key.pos)
         IN IF ~key.ok \/ c > Len(s) \/ s[c] # ":" THEN ParseFail
            ELSE LET r == ParseValue(s, SkipWs(s, c + 1))
                     j == SkipWs(s, r.pos)
                 IN IF ~r.ok \/ j > Len(s) THEN ParseFail
                    ELSE IF s[j] = "}"
                         THEN ParseOk(VObj(DictSet(acc, key.val.s, r.val)), j + 1)
                    ELSE IF s[j] = ","
                         THEN ParseMembers(s, SkipWs(s, j + 1),
                                           DictSet(acc, key.val.s, r.val))
                    ELSE ParseFail

\* scan_once of json.scanner at position i.
ParseValue(s, i) ==
    IF i > Len(s) THEN ParseFail
    ELSE IF s[i] = DQ THEN ScanString(s, i + 1)
    ELSE IF s[i] = "{"
         THEN LET j == SkipWs(s, i + 1)
              IN IF j <= Len(s) /\ s[j] = "}" THEN ParseOk(VObj(<<>>), j + 1)
                 ELSE ParseMembers(s, j, <<>>)
    ELSE IF s[i] = "["
         THEN LET j == SkipWs(s, i + 1)
              IN IF j <= Len(s) /\ s[j] = "]" THEN ParseOk(VArr(<<>>), j + 1)
                 ELSE ParseElements(s, j, <<>>)
    ELSE IF MatchAt(s, LitNull, i) THEN ParseOk(VNull, i + 4)
    ELSE IF MatchAt(s, LitTrue, i) THEN ParseOk(VBool(TRUE), i + 4)
    ELSE IF MatchAt(s, LitFalse, i) THEN ParseOk(VBool(FALSE), i + 5)
    ELSE IF s[i] \in Digits THEN ParseNumber(s, i)
    ELSE ParseFail

\* json.loads(text): one value between optional whitespace, nothing after it.
\* ok = FALSE stands for json.JSONDecodeError.
json_loads(text) ==
    LET r == ParseValue(text, SkipWs(text, 1))
    IN IF r.ok /\ SkipWs(text, r.pos) > Len(text)
       THEN [ok |-> TRUE, val |-> r.val]
       ELSE [ok |-> FALSE, val |-> VNull]


\* --------------------------------------------------- fix_json_structure
\* The value fix_json_structure returns, or the json.JSONDecodeError it raises;
\* tier is the tier whose json.loads produced the outcome.
fix_json_structure(metadata) ==
    LET t1 == json_loads(Tier1Text(metadata))
    IN IF t1.ok THEN [ok |-> TRUE, val |-> t1.val, tier |-> 1, err |-> "none"]
       ELSE LET t2 == json_loads(Tier2Text(metadata))
            IN IF t2.ok THEN [ok |-> TRUE, val |-> t2.val, tier |-> 2, err |-> "none"]
               ELSE [ok |-> FALSE, val |-> VNull, tier |-> 2, err |-> "JSONDecodeError"]

\* ----------------------------------------- preprocess_annotator_metadata
MetadataFields == {"metadata_steps", "metadata_num_steps", "metadata_time_taken",
                   "metadata_tools", "metadata_num_tools"}
NoRecord == [f \in {} |-> VNull]

\* A mistaken version of the extraction: dict.get, which fills None for a missing key.
ExtractFillingDefaults(v) ==
    IF v.t # "obj" THEN [ok |-> FALSE, rec |-> NoRecord, err |-> "TypeError"]
    ELSE [ok |-> TRUE, err |-> "none",
          rec |-> [metadata_steps |-> IF HasKey(v, KeySteps) THEN GetKey(v, KeySteps) ELSE VNull,
                   metadata_num_steps |-> IF HasKey(v, KeyNumSteps) THEN GetKey(v, KeyNumSteps) ELSE VNull,
                   metadata_time_taken |-> IF HasKey(v, KeyTimeTaken) THEN GetKey(v, KeyTimeTaken) ELSE VNull,
                   metadata_tools |-> IF HasKey(v, KeyTools) THEN GetKey(v, KeyTools) ELSE VNull,
                   metadata_num_tools |-> IF HasKey(v, KeyNumTools) THEN GetKey(v, KeyNumTools) ELSE VNull]]

\* The dict literal of preprocess_annotator_metadata: metadata_json[key] for the
\* five keys.  A value that is not a dict cannot be subscripted with a string
\* (TypeError); a dict without the key raises KeyError.
ExtractRecord(v) ==
    IF v.t # "obj" THEN [ok |-> FALSE, rec |-> NoRecord, err |-> "TypeError"]
    ELSE IF \E i \in 1..5 : ~HasKey(v, MetadataKeys[i])
         THEN [ok |-> FALSE, rec |-> NoRecord, err |-> "KeyError"]
    ELSE [ok |-> TRUE, err |-> "none",
          rec |-> [metadata_steps |-> GetKey(v, KeySteps),
                   metadata_num_steps |-> GetKey(v, KeyNumSteps),
                   metadata_time_taken |-> GetKey(v, KeyTimeTaken),
                   metadata_tools |-> GetKey(v, KeyTools),
                   metadata_num_tools |-> GetKey(v, KeyNumTools)]]

preprocess_annotator_metadata(metadata) ==
    LET j == fix_json_structure(metadata)
    IN IF j.ok THEN ExtractRecord(j.val)
       ELSE [ok |-> FALSE, rec |-> NoRecord, err |-> j.err]

\* ------------------------------------ pd.to_numeric(...).astype("Int64")
IsDigits(cs) == Len(cs) > 0 /\ \A i \in 1..Len(cs) : cs[i] \in Digits
AllZero(cs) == \A i \in 1..Len(cs) : cs[i] = "0"

\* The position of the first "." of cs, 0 when there is none.
DotAt(cs) ==
    IF \E i \in 1..Len(cs) : cs[i] = "."
    THEN CHOOSE i \in 1..Len(cs) : cs[i] = "." /\ \A j \in 1..(i - 1) : cs[j] # "."
    ELSE 0

\* pd.to_numeric(column, errors="coerce") on one value of the column: a number
\* stays, a string is read as a number when it spells one and becomes NaN
\* (VNull) when it does not, a missing value is NaN.  Defined for the scalar
\* values only.
ToNumeric(v) ==
    CASE v.t = "int" -> v
      [] v.t = "float" -> v
      [] v.t = "true" -> VInt(1)
      [] v.t = "false" -> VInt(0)
      [] v.t = "null" -> VNull
      [] v.t = "str" ->
           LET d == DotAt(v.s)
           IN IF IsDigits(v.s) THEN VInt(DigitsValue(v.s, 1, Len(v.s)))
              ELSE IF d > 1 /\ IsDigits(SubSeq(v.s, 1, d - 1))
                      /\ IsDigits(SubSeq(v.s, d + 1, Len(v.s)))
                   THEN VFloat(DigitsValue(v.s, 1, d - 1), SubSeq(v.s, d + 1, Len(v.s)))
              ELSE VNull

\* .astype("Int64") on one value: NaN becomes <NA>, a float equal to an integer
\* becomes that integer, any other float raises TypeError (cannot safely cast
\* non-equivalent float64 to int64).
AsInt64(x) ==
    CASE x.t = "int" -> [ok |-> TRUE, val |-> x, err |-> "none"]
      [] x.t = "null" -> [ok |-> TRUE, val |-> VNull, err |-> "none"]
      [] x.t = "float" ->
           IF AllZero(x.s) THEN [ok |-> TRUE, val |-> VInt(x.n), err |-> "none"]
           ELSE [ok |-> FALSE, val |-> VNull, err |-> "TypeError"]

CoerceNumTools(v) == AsInt64(ToNumeric(v))

\* ------------------------------------------------------------ file_path
\* A table cell holding text or nothing (NaN / None).
NullCell == [null |-> TRUE, s |-> <<>>]
Cell(cs) == [null |-> FALSE, s |-> cs]

\* A mistaken version that keeps the path the source file held.
KeepSourcePath(file_name, source_path) == source_path

\* "damg7374-a1-store/" + flattened_dataset_df["file_name"] on one row: the
\* sum of a string and a missing value is missing.
RewritePath(file_name, source_path) ==
    IF file_name.null THEN NullCell ELSE Cell(BucketPrefix \o file_name.s)


\* ------------------------------------------------- metadata texts (inputs)
\* The decimal text of a small natural number.
IntText(n) ==
    LET d(k) == CHOOSE c \in Digits : DigitVal(c) = k
    IN IF n < 10 THEN <<d(n)>> ELSE <<d(n \div 10), d(n % 10)>>

\* The quote an author of the given style puts around a string: the double
\* style always uses ", the single style uses ' unless the string holds an
\* apostrophe.
QuoteOf(cs, style) ==
    IF style = "double" \/ \E i \in 1..Len(cs) : cs[i] = SQ THEN DQ ELSE SQ

RECURSIVE Ser(_, _)
RECURSIVE SerList(_, _, _, _)

\* The elements or members from position i on, separated by ", ".
SerList(items, i, style, isObj) ==
    IF i > Len(items) THEN <<>>
    ELSE (IF i > 1 THEN <<",", " ">> ELSE <<>>)
         \o (IF isObj
             THEN <<QuoteOf(items[i].k, style)>> \o items[i].k
                  \o <<QuoteOf(items[i].k, style)>> \o <<":", " ">>
             ELSE <<>>)
         \o Ser(items[i], style)
         \o SerList(items, i + 1, style, isObj)

\* The text an author of the given style writes for a value.
Ser(v, style) ==
    CASE v.t = "str" -> <<QuoteOf(v.s, style)>> \o v.s \o <<QuoteOf(v.s, style)>>
      [] v.t = "int" -> IntText(v.n)
      [] v.t = "float" -> IntText(v.n) \o <<".">> \o v.s
      [] v.t = "null" -> LitNull
      [] v.t = "true" -> LitTrue
      [] v.t = "false" -> LitFalse
      [] v.t = "arr" -> <<"[">> \o SerList(v.items, 1, style, FALSE) \o <<"]">>
      [] v.t = "obj" -> <<"{">> \o SerList(v.items, 1, style, TRUE) \o <<"}">>

TxOpen == <<"O", "p", "e", "n">>
TxIts == <<"i", "t", "'", "s">>
TxDont == <<"d", "o", "n", "'", "t">>
TxParen == <<"f", "'", "(", "x", ")">>
TxSentinel == <<"T", "M", "P", "1">>
TxSay == <<"s", "a", "y">>
TxIm == <<"I", "'", "m">>
TxTime == <<"5", " ", "m", "i", "n", "u", "t", "e", "s">>
TxWhats == <<"w", "h", "a", "t", "'", "s">>
TxNone == <<"n", "o", "n", "e">>

StepTexts == {TxOpen, TxIts, TxDont, TxParen, TxSentinel, TxSay, TxIm}
TimeTexts == {TxTime, TxWhats}
Styles == {"single", "double"}

StrArr(texts) == VArr([i \in 1..Len(texts) |-> VStr(texts[i])])

\* The structured content of a metadata blob.
Content(steps, time, tools, numTools) ==
    VObj(<<Member(KeySteps, StrArr(steps)),
           Member(KeyNumSteps, VInt(Len(steps))),
           Member(KeyTimeTaken, VStr(time)),
           Member(KeyTools, StrArr(tools)),
           Member(KeyNumTools, numTools)>>)

\* The content without its i-th member.
DropMember(obj, i) ==
    VObj(SubSeq(obj.items, 1, i - 1) \o SubSeq(obj.items, i + 1, Len(obj.items)))

Input(text, val, style, kind) == [text |-> text, val |-> val, style |-> style, kind |-> kind]

StepLists == UNION {[1..n -> StepTexts] : n \in 0..MaxSteps}

\* Well-formed blobs whose step and duration texts vary.
TextInputs ==
    {Input(Ser(Content(st, tm, <<>>, VInt(0)), sty), Content(st, tm, <<>>, VInt(0)),
           sty, "content") : st \in StepLists, tm \in TimeTexts, sty \in Styles}

NumToolsValues ==
    {VInt(2), VFloat(2, <<"5">>), VFloat(2, <<"0">>), VStr(TxNone), VStr(<<"2">>),
     VStr(<<"2", ".", "5">>)}

\* Well-formed blobs whose "Number of tools" varies.
NumToolsInputs ==
    {Input(Ser(Content(<<TxOpen>>, TxTime, <<TxSay>>, nt), sty),
           Content(<<TxOpen>>, TxTime, <<TxSay>>, nt), sty, "content")
       : nt \in NumToolsValues, sty \in Styles}
    \cup {Input(Ser(Content(<<TxOpen>>, TxTime, <<>>, nt), "double"),
                Content(<<TxOpen>>, TxTime, <<>>, nt), "double", "content")
            : nt \in {VNull, VBool(TRUE)}}

\* Blobs that are valid once repaired but lack one of the five keys.
MissingKeyInputs ==
    {Input(Ser(DropMember(Content(<<TxOpen>>, tm, <<>>, VInt(0)), i), sty),
           DropMember(Content(<<TxOpen>>, tm, <<>>, VInt(0)), i), sty, "missing")
       : i \in 1..5, tm \in TimeTexts, sty \in Styles}

RawAlphabet == {"[", "]", "{", "}", DQ, SQ, "1", "s"}
RawInputs ==
    {Input(cs, VNull, "raw", "raw") : cs \in UNION {[1..n -> RawAlphabet] : n \in 0..MaxRawLen}}

RepairInputs == TextInputs \cup NumToolsInputs \cup MissingKeyInputs \cup RawInputs

Contains(s, pat) == \E i \in 1..Len(s) : MatchAt(s, pat, i)

\* ------------------------------------------------------------ source rows
MetaGood == Ser(Content(<<TxOpen, TxSay>>, TxTime, <<>>, VInt(0)), "single")
MetaContraction == Ser(Content(<<TxIts>>, TxTime, <<>>, VStr(TxNone)), "double")
MetaUnparsable == <<"{", "'", "S", "t", "e", "p", "s", "'", ":", " ", "N", "o", "n", "e", "}">>
MetaNoTools == Ser(DropMember(Content(<<TxOpen>>, TxTime, <<>>, VInt(0)), 4), "single")
MetaFraction == Ser(Content(<<TxOpen>>, TxTime, <<>>, VFloat(2, <<"5">>)), "single")

FileNamePdf == <<"a", ".", "p", "d", "f">>
SourcePath == <<"x", "/", "a", ".", "p", "d", "f">>

\* The rows a source file can hold, as pd.read_csv delivers them: an empty
\* file_name or file_path field is read as missing.  The columns question,
\* level and answer pass through the assembly untouched and are left out.
SampleRows ==
    <<[task_id |-> "t1", file_name |-> Cell(FileNamePdf), file_path |-> Cell(SourcePath),
       annotator_metadata |-> MetaGood],
      [task_id |-> "t2", file_name |-> NullCell, file_path |-> NullCell,
       annotator_metadata |-> MetaContraction],
      [task_id |-> "t3", file_name |-> NullCell, file_path |-> Cell(SourcePath),
       annotator_metadata |-> MetaUnparsable],
      [task_id |-> "t4", file_name |-> Cell(FileNamePdf), file_path |-> NullCell,
       annotator_metadata |-> MetaNoTools],
      [task_id |-> "t5", file_name |-> Cell(FileNamePdf), file_path |-> NullCell,
       annotator_metadata |-> MetaFraction]>>

\* The files pd.read_csv can deliver: up to MaxRows rows, none for a file that
\* holds its header line only.
FileContents == UNION {[1..n -> 1..Len(SampleRows)] : n \in 0..MaxRows}

\* One row of the flattened table: the five fields promoted to columns, the
\* tool count coerced, the path rewritten.
FlatRow(row, rec, numTools) ==
    [task_id |-> row.task_id,
     file_name |-> row.file_name,
     file_path |-> RewritePath(row.file_name, row.file_path),
     metadata_steps |-> rec.metadata_steps,
     metadata_num_steps |-> rec.metadata_num_steps,
     metadata_time_taken |-> rec.metadata_time_taken,
     metadata_tools |-> rec.metadata_tools,
     metadata_num_tools |-> numTools]

\* The loop body after the apply: outs[i] is the outcome of
\* preprocess_annotator_metadata on row i.  apply stops at the first row that
\* raises; json_normalize of no rows gives a frame without columns, so the
\* lookup of metadata_num_tools raises KeyError; the coercion raises when it
\* raises on some row.
AssembleFrom(rows, outs) ==
    LET n == Len(rows)
        bad == {i \in 1..n : ~outs[i].ok}
        first == CHOOSE i \in bad : \A j \in bad : i <= j
        nums == [i \in 1..n |-> CoerceNumTools(outs[i].rec.metadata_num_tools)]
    IN IF bad # {}
       THEN [ok |-> FALSE, table |-> <<>>, err |-> outs[first].err,
             at |-> "repair", repaired |-> first]
       ELSE IF n = 0
       THEN [ok |-> FALSE, table |-> <<>>, err |-> "KeyError", at |-> "coerce", repaired |-> 0]
       ELSE IF \E i \in 1..n : ~nums[i].ok
       THEN [ok |-> FALSE, table |-> <<>>, err |-> "TypeError", at |-> "coerce", repaired |-> n]
       ELSE [ok |-> TRUE, err |-> "none", at |-> "none", repaired |-> n,
             table |-> [i \in 1..n |-> FlatRow(SampleRows[rows[i]], outs[i].rec, nums[i].val)]]

\* dataset_df["annotator_metadata"].apply(preprocess_annotator_metadata) on
\* each of the sample rows.
RepairSampleRows ==
    [r \in 1..Len(SampleRows) |->
        preprocess_annotator_metadata(SampleRows[r].annotator_metadata)]

\* ------------------------------------------------------------------ state
VARIABLES
    \* repair of one metadata string
    metadata,        \* the raw annotator_metadata text
    expected,        \* the content the text was written from (VNull for a raw text)
    style,           \* "single", "double" or "raw"
    kind,            \* "content", "missing" or "raw"
    rpc,             \* position in fix_json_structure / preprocess / coercion
    tier1,           \* outcome of the json.loads of the try block
    tier2,           \* outcome of the json.loads of the except block
    tier2_tried,     \* the except block was entered
    parsed,          \* the value fix_json_structure returned
    record,          \* the dict preprocess_annotator_metadata returned
    rerror,          \* the exception raised, "none" when none
    num_tools_out,   \* metadata_num_tools after the coercion
    \* one run of main()
    pc,              \* position in main()
    nfiles,          \* number of files the glob matches
    idx,             \* 1-based position of the loop over file_list
    cleaned_datasets, \* the tables assembled so far, in file order
    cleaned_file,    \* resources/cleaned_datasets/1.csv: <<>> until written, then <<table>>
    rows_repaired,   \* calls of preprocess_annotator_metadata so far
    engine_created,  \* create_engine was called
    db_touched,      \* a database connection was attempted
    connection_open, \* the connection of the with block is open
    test_cases,      \* rows committed to table test_cases by this run
    load_idx,        \* 1-based position of the load loop
    error,           \* the exception that ended the run, "none" when none
    err_at,          \* the step that raised it
    row_outcome      \* preprocess_annotator_metadata of each sample row: a pure
                     \* function of the text, evaluated once and read by the loop

repair_vars == <<metadata, expected, style, kind, rpc, tier1, tier2, tier2_tried,
                 parsed, record, rerror, num_tools_out>>
main_vars == <<pc, nfiles, idx, cleaned_datasets, cleaned_file, rows_repaired,
               engine_created, db_touched, connection_open, test_cases, load_idx,
               error, err_at, row_outcome>>
vars == <<repair_vars, main_vars>>

NotRun == [ok |-> FALSE, val |-> VNull]

RepairIdle ==
    /\ metadata = <<>> /\ expected = VNull /\ style = "raw" /\ kind = "raw"
    /\ rpc = "idle" /\ tier1 = NotRun /\ tier2 = NotRun /\ tier2_tried = FALSE
    /\ parsed = VNull /\ record = NoRecord /\ rerror = "none" /\ num_tools_out = VNull

MainAt(p, n) ==
    /\ pc = p /\ nfiles = n /\ idx = 1
    /\ cleaned_datasets = <<>> /\ cleaned_file = <<>> /\ rows_repaired = 0
    /\ engine_created = FALSE /\ db_touched = FALSE /\ connection_open = FALSE
    /\ test_cases = <<>> /\ load_idx = 1 /\ error = "none" /\ err_at = "none"

\* ------------------------------------------------- repair of one string
InitRepair ==
    /\ \E inp \in RepairInputs :
          /\ metadata = inp.text /\ expected = inp.val
          /\ style = inp.style /\ kind = inp.kind
    /\ rpc = "call" /\ tier1 = NotRun /\ tier2 = NotRun /\ tier2_tried = FALSE
    /\ parsed = VNull /\ record = NoRecord /\ rerror = "none" /\ num_tools_out = VNull
    /\ MainAt("idle", 0)
    /\ row_outcome = <<>>

\* A mistaken try block that always falls through to the except block.
Tier1AlwaysFallsBack ==
    /\ rpc = "call"
    /\ tier1' = json_loads(Tier1Text(metadata))
    /\ rpc' = "except"
    /\ parsed' = tier1'.val
    /\ UNCHANGED <<metadata, expected, style, kind, tier2, tier2_tried, record, rerror,
                   num_tools_out, main_vars>>

\* The try block of fix_json_structure: return the Tier 1 parse, or catch
\* json.JSONDecodeError.
Tier1 ==
    /\ rpc = "call"
    /\ tier1' = json_loads(Tier1Text(metadata))
    /\ IF tier1'.ok
       THEN rpc' = "loaded" /\ parsed' = tier1'.val
       ELSE rpc' = "except" /\ parsed' = parsed
    /\ UNCHANGED <<metadata, expected, style, kind, tier2, tier2_tried, record, rerror,
                   num_tools_out, main_vars>>

\* A mistaken except block that swallows the second failure and returns an
\* empty-valued record source instead of raising.
Tier2SilentDefault ==
    /\ rpc = "except"
    /\ tier2_tried' = TRUE
    /\ tier2' = json_loads(Tier2Text(metadata))
    /\ rpc' = "loaded"
    /\ parsed' = IF tier2'.ok THEN tier2'.val
                 ELSE Content(<<>>, <<>>, <<>>, VNull)
    /\ rerror' = rerror
    /\ UNCHANGED <<metadata, expected, style, kind, tier1, record, num_tools_out, main_vars>>

\* The except block: return the Tier 2 parse; its JSONDecodeError is not caught.
Tier2 ==
    /\ rpc = "except"
    /\ tier2_tried' = TRUE
    /\ tier2' = json_loads(Tier2Text(metadata))
    /\ IF tier2'.ok
       THEN rpc' = "loaded" /\ parsed' = tier2'.val /\ rerror' = rerror
       ELSE rpc' = "raised_fix" /\ parsed' = parsed /\ rerror' = "JSONDecodeError"
    /\ UNCHANGED <<metadata, expected, style, kind, tier1, record, num_tools_out, main_vars>>

\* The return statement of preprocess_annotator_metadata.
Extract ==
    /\ rpc = "loaded"
    /\ LET r == ExtractRecord(parsed)
       IN IF r.ok
          THEN rpc' = "extracted" /\ record' = r.rec /\ rerror' = rerror
          ELSE rpc' = "raised_extract" /\ record' = record /\ rerror' = r.err
    /\ UNCHANGED <<metadata, expected, style, kind, tier1, tier2, tier2_tried, parsed,
                   num_tools_out, main_vars>>

\* pd.to_numeric(..., errors="coerce").astype("Int64") on the row's tool count.
Coerce ==
    /\ rpc = "extracted"
    /\ LET c == CoerceNumTools(record.metadata_num_tools)
       IN IF c.ok
          THEN rpc' = "coerced" /\ num_tools_out' = c.val /\ rerror' = rerror
          ELSE rpc' = "raised_coerce" /\ num_tools_out' = num_tools_out /\ rerror' = c.err
    /\ UNCHANGED <<metadata, expected, style, kind, tier1, tier2, tier2_tried, parsed,
                   record, main_vars>>

NextRepair == Tier1 \/ Tier2 \/ Extract \/ Coerce

SpecRepair == InitRepair /\ [][NextRepair]_vars

\* ------------------------------------------------------------- main()
Init ==
    /\ RepairIdle
    /\ \E n \in 0..MaxFiles : MainAt("start", n)
    /\ row_outcome = RepairSampleRows

\* The body of the loop of load_datasets_from_filesystem for a file holding
\* rows: the table it assembles, or the error it raises, with the number of
\* rows handed to preprocess_annotator_metadata.
AssembleTable(rows) ==
    AssembleFrom(rows, [i \in 1..Len(rows) |-> row_outcome[rows[i]]])

Raise(e, at) ==
    /\ pc' = "failed" /\ error' = e /\ err_at' = at

\* A mistaken discovery that goes on with an empty file list.
DiscoverWithoutCheck ==
    /\ pc = "start"
    /\ pc' = "assemble"
    /\ UNCHANGED <<nfiles, idx, cleaned_datasets, cleaned_file, rows_repaired,
                   engine_created, db_touched, connection_open, test_cases, load_idx,
                   error, err_at, repair_vars, row_outcome>>

\* glob(...) and the check of len(file_list).
Discover ==
    /\ pc = "start"
    /\ IF nfiles = 0
       THEN Raise("ValueError", "discover")
       ELSE pc' = "assemble" /\ UNCHANGED <<error, err_at>>
    /\ UNCHANGED <<nfiles, idx, cleaned_datasets, cleaned_file, rows_repaired,
                   engine_created, db_touched, connection_open, test_cases, load_idx,
                   repair_vars, row_outcome>>

\* A mistaken loop body that appends each table to test_cases as soon as it is
\* assembled.
AssembleAndLoadFile ==
    /\ pc = "assemble" /\ idx <= nfiles
    /\ \E rows \in FileContents : \E a \in {AssembleTable(rows)} :
             /\ rows_repaired' = rows_repaired + a.repaired
             /\ IF a.ok
                THEN /\ cleaned_file' = <<a.table>>
                     /\ cleaned_datasets' = Append(cleaned_datasets, a.table)
                     /\ test_cases' = test_cases \o a.table
                     /\ idx' = idx + 1
                     /\ UNCHANGED <<pc, error, err_at>>
                ELSE /\ Raise(a.err, a.at)
                     /\ UNCHANGED <<cleaned_file, cleaned_datasets, idx, test_cases>>
    /\ UNCHANGED <<nfiles, engine_created, db_touched, connection_open, load_idx,
                   repair_vars, row_outcome>>

\* One pass of the loop of load_datasets_from_filesystem: read the file,
\* repair every row, flatten, coerce, rewrite the paths, write the local
\* cleaned file and keep the table.
AssembleFile ==
    /\ pc = "assemble" /\ idx <= nfiles
    /\ \E rows \in FileContents : \E a \in {AssembleTable(rows)} :
             /\ rows_repaired' = rows_repaired + a.repaired
             /\ IF a.ok
                THEN /\ cleaned_file' = <<a.table>>
                     /\ cleaned_datasets' = Append(cleaned_datasets, a.table)
                     /\ idx' = idx + 1
                     /\ UNCHANGED <<pc, error, err_at>>
                ELSE /\ Raise(a.err, a.at)
                     /\ UNCHANGED <<cleaned_file, cleaned_datasets, idx>>
    /\ UNCHANGED <<nfiles, engine_created, db_touched, connection_open, test_cases,
                   load_idx, repair_vars, row_outcome>>

\* load_datasets_from_filesystem returns; get_postgres_conn_string and
\* create_engine (which opens no connection).
CreateEngine ==
    /\ pc = "assemble" /\ idx > nfiles
    /\ \/ /\ engine_created' = TRUE
          /\ pc' = "create_tables"
          /\ UNCHANGED <<error, err_at>>
       \/ /\ Raise("StorageError", "engine")
          /\ UNCHANGED engine_created
    /\ UNCHANGED <<nfiles, idx, cleaned_datasets, cleaned_file, rows_repaired,
                   db_touched, connection_open, test_cases, load_idx, repair_vars, row_outcome>>

\* create_tables(engine).
CreateTables ==
    /\ pc = "create_tables"
    /\ db_touched' = TRUE
    /\ \/ pc' = "connect" /\ UNCHANGED <<error, err_at>>
       \/ Raise("StorageError", "create_tables")
    /\ UNCHANGED <<nfiles, idx, cleaned_datasets, cleaned_file, rows_repaired,
                   engine_created, connection_open, test_cases, load_idx, repair_vars, row_outcome>>

\* with engine.connect() as connection.
Connect ==
    /\ pc = "connect"
    /\ \/ /\ connection_open' = TRUE
          /\ pc' = "load"
          /\ UNCHANGED <<error, err_at>>
       \/ /\ Raise("StorageError", "connect")
          /\ UNCHANGED connection_open
    /\ UNCHANGED <<nfiles, idx, cleaned_datasets, cleaned_file, rows_repaired,
                   engine_created, db_touched, test_cases, load_idx, repair_vars, row_outcome>>

\* A mistaken load in which one transaction spans the loop: a failed append
\* rolls back the tables appended before it.
AppendTableAllOrNothing ==
    /\ pc = "load" /\ load_idx <= Len(cleaned_datasets)
    /\ \/ /\ test_cases' = test_cases \o cleaned_datasets[load_idx]
          /\ load_idx' = load_idx + 1
          /\ UNCHANGED <<pc, error, err_at, connection_open>>
       \/ /\ Raise("StorageError", "append")
          /\ connection_open' = FALSE
          /\ test_cases' = <<>>
          /\ UNCHANGED load_idx
    /\ UNCHANGED <<nfiles, idx, cleaned_datasets, cleaned_file, rows_repaired,
                   engine_created, db_touched, repair_vars, row_outcome>>

\* One pass of the load loop: df.to_sql(name="test_cases", con=connection,
\* if_exists="append").  to_sql commits its own rows when it succeeds; when it
\* raises, its own rows are not kept, the with block closes the connection and
\* the error leaves main().
AppendTable ==
    /\ pc = "load" /\ load_idx <= Len(cleaned_datasets)
    /\ \/ /\ test_cases' = test_cases \o cleaned_datasets[load_idx]
          /\ load_idx' = load_idx + 1
          /\ UNCHANGED <<pc, error, err_at, connection_open>>
       \/ /\ Raise("StorageError", "append")
          /\ connection_open' = FALSE
          /\ UNCHANGED <<test_cases, load_idx>>
    /\ UNCHANGED <<nfiles, idx, cleaned_datasets, cleaned_file, rows_repaired,
                   engine_created, db_touched, repair_vars, row_outcome>>

\* The load loop is exhausted: the with block closes the connection.
Finish ==
    /\ pc = "load" /\ load_idx > Len(cleaned_datasets)
    /\ pc' = "done"
    /\ connection_open' = FALSE
    /\ UNCHANGED <<nfiles, idx, cleaned_datasets, cleaned_file, rows_repaired,
                   engine_created, db_touched, test_cases, load_idx, error, err_at,
                   repair_vars, row_outcome>>

Next ==
    Discover \/ AssembleFile \/ CreateEngine \/ CreateTables \/ Connect
      \/ AppendTable \/ Finish

Spec == Init /\ [][Next]_vars

\* ================================================================ properties

\* The rows of the first k tables, in order.
RECURSIVE RowsOf(_, _)
RowsOf(tables, k) == IF k = 0 THEN <<>> ELSE RowsOf(tables, k - 1) \o tables[k]

\* C1: when the glob matches no file, the run fails with ValueError at the
\* discovery, before any row is repaired, before the local cleaned file is
\* written and before an engine or a database connection exists; nothing later
\* is reached.
NoFilesFailsFast ==
    (nfiles = 0 /\ pc # "start") =>
        /\ pc = "failed" /\ error = "ValueError" /\ err_at = "discover"
        /\ rows_repaired = 0 /\ cleaned_file = <<>> /\ cleaned_datasets = <<>>
        /\ ~engine_created /\ ~db_touched /\ ~connection_open
        /\ test_cases = <<>> /\ load_idx = 1

NoFilesRunFailed == nfiles = 0 /\ pc = "failed" /\ error = "ValueError"

\* C2: Tier 2 is attempted only after the Tier 1 text failed to parse, and when
\* the Tier 1 text parses the value returned is the Tier 1 parse, with Tier 2
\* never evaluated.
TiersInOrderFirstWins ==
    /\ tier2_tried => (rpc # "call" /\ ~tier1.ok)
    /\ (rpc # "call" /\ tier1.ok) =>
          (~tier2_tried /\ tier2 = NotRun /\ parsed = tier1.val /\ rerror # "JSONDecodeError")

\* Tier 1 returned a value for a text on which Tier 2 would have failed.
Tier1WinsWhereTier2Differs ==
    /\ rpc = "loaded" /\ tier1.ok /\ ~tier2_tried
    /\ Len(metadata) <= MaxRawLen
    /\ ~json_loads(Tier2Text(metadata)).ok

\* C3: when neither the Tier 1 nor the Tier 2 text is valid JSON,
\* fix_json_structure raises JSONDecodeError: no value is returned, no record
\* is built, no default stands in and nothing further is tried.
BothTiersFailRaises ==
    (tier2_tried /\ ~tier2.ok) =>
        /\ ~tier1.ok
        /\ rpc = "raised_fix" /\ rerror = "JSONDecodeError"
        /\ parsed = VNull /\ record = NoRecord /\ num_tools_out = VNull

\* Both tiers failed on a well-formed single-quoted blob.
BothTiersFailedOnBlob ==
    rpc = "raised_fix" /\ kind = "content" /\ style = "single" /\ tier2_tried /\ ~tier2.ok

HasContraction(text) ==
    Contains(text, AposS) \/ Contains(text, AposT) \/ Contains(text, AposParen)

\* Every apostrophe of the text starts 's, 't or '(.
OnlyContractions(text) ==
    \A i \in 1..Len(text) :
        text[i] = SQ => (i < Len(text) /\ text[i + 1] \in {"s", "t", "("})

\* C5: on every well-formed double-quoted blob whose strings hold 's, 't or
\* '( (and no other apostrophe), Tier 2 is reached, parses, and gives back the
\* content unchanged.
Tier2RecoversDoubleQuoted ==
    (kind = "content" /\ style = "double" /\ HasContraction(metadata)
       /\ OnlyContractions(metadata) /\ rpc \notin {"call", "except"}) =>
        (tier2_tried /\ tier2.ok /\ parsed = expected)

\* The same with the blobs left out whose strings hold the text TMP1.
Tier2RecoversWithoutSentinelText ==
    (kind = "content" /\ style = "double" /\ HasContraction(metadata)
       /\ OnlyContractions(metadata) /\ ~Contains(metadata, TMP1)
       /\ rpc \notin {"call", "except"}) =>
        (tier2_tried /\ tier2.ok /\ parsed = expected)

ExtractDone == rpc \notin {"idle", "call", "except", "loaded", "raised_fix"}
LacksKey(v) == \E i \in 1..5 : v.t # "obj" \/ ~HasKey(v, MetadataKeys[i])

\* C6, as claimed: a parsed value that lacks one of the five keys makes
\* preprocess_annotator_metadata raise KeyError.
MissingKeyRaisesKeyError ==
    (ExtractDone /\ LacksKey(parsed)) =>
        (rpc = "raised_extract" /\ rerror = "KeyError" /\ record = NoRecord)

\* C6, amended: a parsed object that lacks one of the five keys raises
\* KeyError and a parsed value that is not an object raises TypeError; either
\* way no record is returned, no default is filled and the other tier is not
\* tried; a record that is returned has exactly the five metadata_* fields.
ExtractRaisesOrReturnsFive ==
    ExtractDone =>
        /\ tier1.ok => ~tier2_tried
        /\ IF LacksKey(parsed)
           THEN /\ rpc = "raised_extract" /\ record = NoRecord /\ num_tools_out = VNull
                /\ rerror = IF parsed.t = "obj" THEN "KeyError" ELSE "TypeError"
           ELSE /\ rpc # "raised_extract"
                /\ DOMAIN record = MetadataFields

\* A repaired blob without one of the keys raised KeyError.
MissingKeyRaised ==
    rpc = "raised_extract" /\ rerror = "KeyError" /\ kind = "missing" /\ parsed.t = "obj"

\* C7: the coercion of metadata_num_tools never raises; an integer stays that
\* integer and a value that is not a number becomes null.
CoercionNeverRaises ==
    /\ rpc # "raised_coerce"
    /\ rpc = "coerced" =>
          /\ record.metadata_num_tools.t = "int" => num_tools_out = record.metadata_num_tools
          /\ ToNumeric(record.metadata_num_tools) = VNull => num_tools_out = VNull

\* C8: each table is appended to test_cases as its own committed unit: when
\* the append of the k-th table fails, the rows of tables 1..k-1 stay in
\* test_cases and no later table is appended.
AppendsCommitPerFile ==
    /\ pc \in {"load", "done"} => test_cases = RowsOf(cleaned_datasets, load_idx - 1)
    /\ (pc = "failed" /\ err_at = "append") =>
          /\ load_idx <= Len(cleaned_datasets)
          /\ test_cases = RowsOf(cleaned_datasets, load_idx - 1)
          /\ ~connection_open

\* The append of a later table failed after an earlier one was committed.
LaterAppendFailed ==
    pc = "failed" /\ err_at = "append" /\ load_idx >= 2 /\ test_cases # <<>>

AssembledRows == {<<f, i>> : f \in 1..MaxFiles, i \in 1..MaxRows}
IsRow(f, i) == f <= Len(cleaned_datasets) /\ i <= Len(cleaned_datasets[f])

\* C9, as claimed: every row of an assembled table, a row without file_name
\* included, has file_path = "damg7374-a1-store/" + file_name.
PathIsPrefixPlusName ==
    \A fi \in AssembledRows :
        IsRow(fi[1], fi[2]) =>
            LET row == cleaned_datasets[fi[1]][fi[2]]
            IN row.file_path = Cell(BucketPrefix \o row.file_name.s)

\* C9, amended: a row that has a file_name has file_path =
\* "damg7374-a1-store/" + file_name whatever path the source held; a row whose
\* file_name is missing has a missing file_path.
PathIsPrefixPlusNameOrMissing ==
    \A fi \in AssembledRows :
        IsRow(fi[1], fi[2]) =>
            LET row == cleaned_datasets[fi[1]][fi[2]]
            IN IF row.file_name.null
               THEN row.file_path = NullCell
               ELSE row.file_path = Cell(BucketPrefix \o row.file_name.s)

\* A table was assembled that holds a named row and a row without file_name.
MixedNamesAssembled ==
    \E t \in 1..Len(cleaned_datasets) :
        /\ \E i \in 1..Len(cleaned_datasets[t]) : cleaned_datasets[t][i].file_name.null
        /\ \E i \in 1..Len(cleaned_datasets[t]) : ~cleaned_datasets[t][i].file_name.null

\* C10: the load starts only after every file is assembled; a run in which the
\* repair of a row fails opens no database connection and appends no row, and
\* leaves at most the local cleaned file, holding the last table assembled
\* before the failure.
RepairFailureLoadsNothing ==
    /\ (engine_created \/ db_touched \/ connection_open \/ test_cases # <<>>) =>
          (idx = nfiles + 1 /\ Len(cleaned_datasets) = nfiles)
    /\ (pc = "failed" /\ err_at = "repair") =>
          /\ ~engine_created /\ ~db_touched /\ ~connection_open
          /\ test_cases = <<>> /\ load_idx = 1
          /\ cleaned_file = IF cleaned_datasets = <<>> THEN <<>>
                            ELSE <<cleaned_datasets[Len(cleaned_datasets)]>>

\* A row failed to repair after an earlier file was assembled in full.
RepairFailedAfterAssembledFile ==
    pc = "failed" /\ err_at = "repair" /\ Len(cleaned_datasets) >= 1 /\ cleaned_file # <<>>
====
